---- MODULE Spec2Model ----
(***************************************************************************)
(* A model of cupcake/jsonschema: a JSON Schema document is compiled into  *)
(* keyword validators (UnmarshalJSON, SetSchema, GetNeighboringSchemas)    *)
(* and the validators are applied to decoded JSON values (Validate).       *)
(*                                                                         *)
(* Go maps are iterated in an unspecified order: every `range` over a map  *)
(* is modelled as a choice among all orders of its keys, so a Validate     *)
(* operator yields the SET of outcomes the code can produce.               *)
(***************************************************************************)
EXTENDS Integers, Sequences, FiniteSets, Bags, TLC

\* Bounds of the model.
MaxInt == 2       \* integer parts of numeric literals and instances: 0..MaxInt
MaxItems == 2     \* longest instance array
MaxKeys == 2      \* most keys of an instance object
MaxCallers == 2   \* goroutines calling Validate on one schema at the same time

VARIABLES revision, \* which of the source's two revisions of the validators is built
          doc,      \* the raw schema document handed to Parse
          phase,    \* "raw" | "compiled" | "failed" | "validated"
          schema,   \* the compiled *Schema (NoSchema before Parse or on error)
          data,     \* the instance of the latest Validate call
          last,     \* the outcome of the latest Validate call
          prev,     \* the outcome of the call before, when it had the same instance
          calls     \* the Validate calls running concurrently on the schema, per caller

vars == <<revision, doc, phase, schema, data, last, prev, calls>>

(***************************************************************************)
(* Decoded JSON values (encoding/json with UseNumber) and Go numbers.      *)
(***************************************************************************)
JNull == [k |-> "null"]
JBool(b) == [k |-> "bool", b |-> b]
JStr(s) == [k |-> "string", s |-> s]
\* json.Number: the literal's text, kept as integer part, optional one-digit
\* fraction (fr = -1: the text has no "."), optional exponent.
JNum(ip, fr, hasE, e) == [k |-> "json.Number", ip |-> ip, fr |-> fr, hasE |-> hasE, e |-> e]
\* a Go numeric value of static type gt, worth h hundredths
GoNum(gt, h) == [k |-> gt, h |-> h]
JArr(a) == [k |-> "array", a |-> a]
JObj(o) == [k |-> "object", o |-> o]

Keys(o) == DOMAIN o
Has(o, key) == key \in DOMAIN o

\* All orders in which a `range` may visit the keys of a map.
Orders(S) == {f \in [1..Cardinality(S) -> S] : \A i, j \in 1..Cardinality(S) : f[i] = f[j] => i = j}

Pow10(e) == CASE e = -1 -> 1 [] e = 0 -> 10 [] e = 1 -> 10 * 10 [] e = 2 -> 10 * 10 * 10

\* strings.Contains(m.String(), ".")
HasDot(n) == n.fr >= 0

\* json.Number.Int64: strconv.ParseInt accepts digits only
Int64(n) == IF n.fr = -1 /\ ~n.hasE THEN [err |-> FALSE, v |-> n.ip] ELSE [err |-> TRUE, v |-> 0]

\* json.Number.Float64: strconv.ParseFloat; the value in hundredths
Float64(n) ==
    LET tenths == n.ip * 10 + (IF n.fr >= 0 THEN n.fr ELSE 0)
    IN  [err |-> FALSE, v |-> tenths * Pow10(IF n.hasE THEN n.e ELSE 0)]

\* float64(n) of an int64
IntToFloat(n) == n * 10 * 10

\* json.Number.String: the literal's text
Number_String(n) ==
    ToString(n.ip) \o (IF n.fr >= 0 THEN "." \o ToString(n.fr) ELSE "")
                   \o (IF n.hasE THEN "e" \o ToString(n.e) ELSE "")

(***************************************************************************)
(* Outcomes of a Validate call: the error list, or a runtime panic.        *)
(* log is a ghost: the bag of (validator, instance key, schema key)        *)
(* applications of an embedded schema by properties / patternProperties.   *)
(***************************************************************************)
ValidationError(d) == [Description |-> d]
Ok(errs) == [errs |-> errs, panic |-> FALSE, log |-> EmptyBag]
Nil == Ok(<<>>)
One(d) == Ok(<<ValidationError(d)>>)
Panic == [errs |-> <<>>, panic |-> TRUE, log |-> EmptyBag]

\* append(valErrs, more...): a panic in either part aborts the call
AppendErrs(a, b) ==
    IF a.panic THEN a
    ELSE [errs |-> a.errs \o b.errs, panic |-> b.panic, log |-> a.log (+) b.log]

AppendAll(A, B) == {AppendErrs(a, b) : a \in A, b \in B}

GoIntTypes == {"int", "int8", "int16", "int32", "int64"}
GoUintTypes == {"uint8", "uint16", "uint32"}

normalizeNumber(v) ==
    CASE v.k = "float32" -> [n |-> GoNum("float64", v.h), err |-> FALSE]
      [] v.k = "float64" -> [n |-> v, err |-> FALSE]
      [] v.k \in GoIntTypes -> [n |-> GoNum("int64", v.h), err |-> FALSE]
      [] v.k \in GoUintTypes -> [n |-> GoNum("int64", v.h), err |-> FALSE]
      [] v.k = "uint64" -> [n |-> v, err |-> TRUE]
      [] OTHER -> [n |-> v, err |-> FALSE]

IntOf(n) == n.h \div (10 * 10)

(***************************************************************************)
(* minimum (the version linked through SetSchema returning error)          *)
(***************************************************************************)
minimum_isLargerThanFloat(m, h) ==
    LET min == Float64(m.Number)
    IN  IF min.err THEN [r |-> FALSE, err |-> TRUE]
        ELSE [r |-> min.v > h \/ (~m.exclusive /\ min.v = h), err |-> FALSE]

minimum_isLargerThanInt(m, n) ==
    IF ~HasDot(m.Number)
    THEN LET min == Int64(m.Number)
         IN  IF min.err THEN [r |-> FALSE, err |-> FALSE]
             ELSE [r |-> min.v > n \/ (~m.exclusive /\ min.v = n), err |-> FALSE]
    ELSE minimum_isLargerThanFloat(m, IntToFloat(n))

minimum_Validate(m, v) ==
    LET nn == normalizeNumber(v)
        cmp == CASE nn.n.k = "int64" -> minimum_isLargerThanInt(m, IntOf(nn.n))
                 [] nn.n.k = "float64" -> minimum_isLargerThanFloat(m, nn.n.h)
                 [] OTHER -> [r |-> FALSE, err |-> TRUE]
    IN  IF nn.err THEN One("uint64 is not a supported type.")
        ELSE IF nn.n.k \notin {"int64", "float64"} THEN Nil
        ELSE IF cmp.err THEN Nil
        ELSE IF cmp.r THEN One("Value must be larger than " \o Number_String(m.Number) \o ".")
        ELSE Nil

\* SetSchema reads the sibling key "exclusiveminimum"; json.Unmarshal into a
\* bool fails on a non-boolean and leaves the flag as it was.
minimum_SetSchema(m, raw) ==
    IF Has(raw, "exclusiveminimum") /\ raw["exclusiveminimum"].k = "bool"
    THEN [m EXCEPT !.exclusive = raw["exclusiveminimum"].b]
    ELSE m

\* json.Unmarshal(b, &m.Number): a JSON number; null leaves the Number empty,
\* which is not in the modelled documents.
minimum_UnmarshalJSON(b) ==
    IF b.k = "json.Number"
    THEN [err |-> FALSE, v |-> [kw |-> "minimum", Number |-> b, exclusive |-> FALSE]]
    ELSE [err |-> TRUE, v |-> JNull]

(***************************************************************************)
(* minimum, the tri-state variant of the same type                         *)
(***************************************************************************)
Sign(a, b) == IF a > b THEN 1 ELSE IF a < b THEN -1 ELSE 0

minimum3_isLargerThanInt(m, n) ==
    IF ~HasDot(m.Number)
    THEN LET intg == Int64(m.Number) IN IF intg.err THEN 0 ELSE Sign(intg.v, n)
    ELSE LET flt == Float64(m.Number) IN IF flt.err THEN 0 ELSE Sign(flt.v, IntToFloat(n))

minimum3_isLargerThanFloat(m, h) ==
    LET flt == Float64(m.Number) IN IF flt.err THEN 0 ELSE Sign(flt.v, h)

minimum3_Validate(m, v) ==
    LET nn == normalizeNumber(v)
        isLarger == CASE nn.n.k = "int64" -> minimum3_isLargerThanInt(m, IntOf(nn.n))
                      [] nn.n.k = "float64" -> minimum3_isLargerThanFloat(m, nn.n.h)
                      [] OTHER -> 0
    IN  IF nn.err THEN One("uint64 is not a supported type.")
        ELSE IF nn.n.k \notin {"int64", "float64"} THEN Nil
        ELSE IF isLarger > 0 \/ (m.exclusive /\ isLarger = 0)
             THEN One("Value must be larger than " \o Number_String(m.Number) \o ".")
        ELSE Nil

minimum3_SetSchema(m, raw) ==
    IF Has(raw, "exclusiveMinimum") /\ raw["exclusiveMinimum"].k = "bool"
    THEN [m EXCEPT !.exclusive = raw["exclusiveMinimum"].b]
    ELSE m

(***************************************************************************)
(* multipleOf                                                              *)
(***************************************************************************)
Abs(n) == IF n < 0 THEN -n ELSE n

\* Go's n % m: truncated division, the sign follows the dividend (m # 0)
GoRem(n, m) == IF n < 0 THEN -(Abs(n) % Abs(m)) ELSE n % Abs(m)

multipleOf_Validate(m, v) ==
    LET nn == normalizeNumber(v)
    IN  IF nn.err THEN One("uint64 is not a supported type.")
        ELSE IF nn.n.k # "int64" THEN Nil
        ELSE IF m.n = 0 THEN Panic      \* integer divide by zero
        ELSE IF GoRem(IntOf(nn.n), m.n) # 0 THEN One("Value must be a multiple of " \o ToString(m.n) \o ".")
        ELSE Nil

\* json.Unmarshal(b, &n) with n int64: a literal strconv.ParseInt accepts;
\* null is accepted and leaves n = 0.
multipleOf_UnmarshalJSON(b) ==
    CASE b.k = "json.Number" /\ ~Int64(b).err -> [err |-> FALSE, v |-> [kw |-> "multipleOf", n |-> Int64(b).v]]
      [] b.k = "null" -> [err |-> FALSE, v |-> [kw |-> "multipleOf", n |-> 0]]
      [] OTHER -> [err |-> TRUE, v |-> JNull]

(***************************************************************************)
(* type                                                                    *)
(***************************************************************************)
RECURSIVE Join(_, _)
Join(names, i) ==
    IF i > Len(names) THEN ""
    ELSE IF i = Len(names) THEN names[i]
    ELSE names[i] \o " " \o Join(names, i + 1)

typeValidator_kind(v) ==
    CASE v.k = "string" -> "string"
      [] v.k = "bool" -> "boolean"
      [] v.k = "null" -> "null"
      [] v.k = "array" -> "array"
      [] v.k = "object" -> "object"
      [] v.k = "json.Number" -> IF HasDot(v) THEN "number" ELSE "integer"
      [] v.k = "float64" -> "number"
      [] OTHER -> ""

typeValidator_accepts(t, s) == s \in t.types \/ (s = "integer" /\ "number" \in t.types)

\* the error lists the allowed names in the order `range t` visits them
typeValidator_Validate(t, v) ==
    IF typeValidator_accepts(t, typeValidator_kind(v)) THEN {Nil}
    ELSE {One("Value must be one of these types: [" \o Join(types, 1) \o "].") : types \in Orders(t.types)}

IsStringList(b) == b.k = "array" /\ \A i \in DOMAIN b.a : b.a[i].k = "string"
StringSet(b) == {b.a[i].s : i \in DOMAIN b.a}

typeValidator_UnmarshalJSON(b) ==
    CASE b.k = "string" -> [err |-> FALSE, v |-> [kw |-> "type", types |-> {b.s}]]
      [] b.k = "null" -> [err |-> FALSE, v |-> [kw |-> "type", types |-> {""}]]
      [] IsStringList(b) -> [err |-> FALSE, v |-> [kw |-> "type", types |-> StringSet(b)]]
      [] OTHER -> [err |-> TRUE, v |-> JNull]

(***************************************************************************)
(* required                                                                *)
(***************************************************************************)
RECURSIVE required_loop(_, _, _)
required_loop(order, i, dataMap) ==
    IF i > Len(order) THEN Nil
    ELSE AppendErrs(IF Has(dataMap, order[i]) THEN Nil
                    ELSE One("Required error. The data must be an object with " \o order[i] \o " as one of its keys"),
                    required_loop(order, i + 1, dataMap))

required_Validate(r, v) ==
    IF v.k # "object" THEN {Nil}
    ELSE {required_loop(order, 1, v.o) : order \in Orders(r.names)}

required_UnmarshalJSON(b) ==
    CASE IsStringList(b) -> [err |-> FALSE, v |-> [kw |-> "required", names |-> StringSet(b)]]
      [] b.k = "null" -> [err |-> FALSE, v |-> [kw |-> "required", names |-> {}]]
      [] OTHER -> [err |-> TRUE, v |-> JNull]

(***************************************************************************)
(* Embedded schemas.  A *Schema is a record [Validators |-> <<...>>] or    *)
(* NilSchema (a nil pointer, what JSON null decodes to).                   *)
(***************************************************************************)
NilSchema == [nil |-> TRUE]
IsNil(s) == "nil" \in DOMAIN s

RECURSIVE Schema_Validate(_, _)
RECURSIVE Schema_UnmarshalJSON(_, _)

ClearLog(o) == [o EXCEPT !.log = EmptyBag]
Logged(o, by, dataKey, schemaKey) ==
    IF o.panic THEN o ELSE [o EXCEPT !.log = SetToBag({<<by, dataKey, schemaKey>>})]

\* schema.Validate(v) called from inside a keyword validator
Sub(s, v) == {ClearLog(o) : o \in Schema_Validate(s, v)}
SubLogged(s, v, by, dataKey, schemaKey) ==
    {Logged(o, by, dataKey, schemaKey) : o \in Schema_Validate(s, v)}

\* valErrs = append(valErrs, step1...); valErrs = append(valErrs, step2...); ...
RECURSIVE Chain(_, _)
Chain(steps, i) ==
    IF i > Len(steps) THEN {Nil}
    ELSE AppendAll(steps[i], Chain(steps, i + 1))

(***************************************************************************)
(* regexp: the patterns of the modelled documents and what they match      *)
(***************************************************************************)
regexp_Compile(src) == src \in {"^a", "b$"}
MatchString(src, str) ==
    CASE src = "^a" -> str \in {"a", "ab"}
      [] src = "b$" -> str \in {"b", "ab"}
      [] OTHER -> FALSE

(***************************************************************************)
(* patternProperties                                                       *)
(***************************************************************************)
\* for key, val := range p.object { if val.MatchString(dataKey) { append } }
patternProperties_match(p, by, dataKey, dataVal) ==
    LET hit == {key \in p.object : MatchString(key, dataKey)}
    IN  UNION {Chain([i \in 1..Len(order) |->
                        SubLogged(p.EmbeddedSchemas[order[i]], dataVal, by, dataKey, order[i])], 1)
               : order \in Orders(hit)}

\* a slip: the deferral to properties is forgotten
patternProperties_Validate_always(p, v) ==
    IF v.k # "object" THEN {Nil}
    ELSE UNION {Chain([i \in 1..Len(order) |->
                         patternProperties_match(p, "patternProperties", order[i], v.o[order[i]])], 1)
                : order \in Orders(Keys(v.o))}

patternProperties_Validate(p, v) ==
    IF p.propertiesIsNeighbor THEN {Nil}
    ELSE IF v.k # "object" THEN {Nil}
    ELSE UNION {Chain([i \in 1..Len(order) |->
                         patternProperties_match(p, "patternProperties", order[i], v.o[order[i]])], 1)
                : order \in Orders(Keys(v.o))}

patternProperties_SetSchema(p, raw) ==
    IF Has(raw, "properties") THEN [p EXCEPT !.propertiesIsNeighbor = TRUE] ELSE p

(***************************************************************************)
(* properties                                                              *)
(***************************************************************************)
NoPatternProperties == [kw |-> "nil"]

properties_matches(p, dataKey) ==
    \/ Has(p.EmbeddedSchemas, dataKey)
    \/ /\ p.patternProperties.kw # "nil"
       /\ \E key \in p.patternProperties.object : MatchString(key, dataKey)

\* what one pass of the loop body appends for dataKey
properties_step(p, dataKey, dataVal) ==
    LET exact == IF Has(p.EmbeddedSchemas, dataKey)
                 THEN SubLogged(p.EmbeddedSchemas[dataKey], dataVal, "properties", dataKey, dataKey)
                 ELSE {Nil}
        pats == IF p.patternProperties.kw # "nil"
                THEN patternProperties_match(p.patternProperties, "properties", dataKey, dataVal)
                ELSE {Nil}
    IN  IF properties_matches(p, dataKey) THEN AppendAll(exact, pats)
        ELSE IF ~IsNil(p.additionalPropertiesObject) THEN Sub(p.additionalPropertiesObject, dataVal)
        ELSE {Nil}

\* valErrs = append([]ValidationError{...}): the list collected so far is replaced
properties_additional(p, acc) ==
    IF acc.panic THEN acc
    ELSE [acc EXCEPT !.errs = <<ValidationError("Additional properties aren't allowed")>>]

properties_rejects(p, dataKey) ==
    /\ ~properties_matches(p, dataKey)
    /\ IsNil(p.additionalPropertiesObject)
    /\ ~p.additionalPropertiesBool

RECURSIVE properties_loop(_, _, _, _, _)
properties_loop(p, dataMap, order, i, accs) ==
    IF i > Len(order) THEN accs
    ELSE LET dataKey == order[i]
             next == IF properties_rejects(p, dataKey)
                     THEN {properties_additional(p, acc) : acc \in accs}
                     ELSE AppendAll(accs, properties_step(p, dataKey, dataMap[dataKey]))
         IN  properties_loop(p, dataMap, order, i + 1, next)

properties_Validate(p, v) ==
    IF v.k # "object" THEN {Nil}
    ELSE UNION {properties_loop(p, v.o, order, 1, {Nil}) : order \in Orders(Keys(v.o))}

\* additionalPropertiesBool: true unless the sibling is a JSON boolean;
\* additionalPropertiesObject: the sibling decoded as a schema, nil on error
properties_SetSchema(p, raw, decoded) ==
    IF ~Has(raw, "additionalProperties") THEN [p EXCEPT !.additionalPropertiesBool = TRUE]
    ELSE [p EXCEPT !.additionalPropertiesBool =
                        IF raw["additionalProperties"].k = "bool" THEN raw["additionalProperties"].b ELSE TRUE,
                   !.additionalPropertiesObject = IF decoded.err THEN NilSchema ELSE decoded.v]

properties_GetNeighboringSchemas(p, nodes) ==
    IF Has(nodes, "patternProperties") /\ nodes["patternProperties"].kw = "patternProperties"
    THEN [p EXCEPT !.patternProperties = nodes["patternProperties"]]
    ELSE p

(***************************************************************************)
(* items / additionalItems                                                 *)
(***************************************************************************)
additionalItems_Validate(a, v) == Nil

\* the tuple loop: positions past the tuple return at once when additional
\* items are not allowed, dropping what was collected
RECURSIVE items_tuple(_, _, _, _)
items_tuple(i, instances, pos, accs) ==
    IF pos > Len(instances) THEN accs
    ELSE IF pos <= Len(i.schemaSlice)
         THEN items_tuple(i, instances, pos + 1, AppendAll(accs, Sub(i.schemaSlice[pos], instances[pos])))
    ELSE IF i.additionalAllowed
         THEN IF IsNil(i.additionalItems)
              THEN items_tuple(i, instances, pos + 1, accs)
              ELSE items_tuple(i, instances, pos + 1, AppendAll(accs, Sub(i.additionalItems, instances[pos])))
    ELSE {IF acc.panic THEN acc ELSE One("Additional items aren't allowed.") : acc \in accs}

items_Validate(i, v) ==
    IF v.k # "array" THEN {Nil}
    ELSE IF ~IsNil(i.schema)
         THEN Chain([pos \in 1..Len(v.a) |-> Sub(i.schema, v.a[pos])], 1)
    ELSE IF i.hasSlice THEN items_tuple(i, v.a, 1, {Nil})
    ELSE {Nil}

\* additionalAllowed: true unless the sibling is a JSON boolean
items_SetSchema(i, raw) ==
    IF ~Has(raw, "additionalItems") THEN [i EXCEPT !.additionalAllowed = TRUE]
    ELSE [i EXCEPT !.additionalAllowed =
                        IF raw["additionalItems"].k = "bool" THEN raw["additionalItems"].b ELSE TRUE]

\* a slip: the sibling node is never found
items_GetNeighboringSchemas_unlinked(i, nodes) == i

items_GetNeighboringSchemas(i, nodes) ==
    IF Has(nodes, "additionalItems") /\ Has(nodes["additionalItems"].EmbeddedSchemas, "")
    THEN [i EXCEPT !.additionalItems = nodes["additionalItems"].EmbeddedSchemas[""]]
    ELSE i

(***************************************************************************)
(* dependencies                                                            *)
(***************************************************************************)
RECURSIVE dependencies_missing(_, _, _)
dependencies_missing(names, i, val) ==
    IF i > Len(names) THEN Nil
    ELSE AppendErrs(IF Has(val, names[i]) THEN Nil
                    ELSE One("instance does not have a property with the name " \o names[i]),
                    dependencies_missing(names, i + 1, val))

dependencies_Validate(d, v) ==
    IF v.k # "object" THEN {Nil}
    ELSE LET sdeps == {key \in Keys(d.EmbeddedSchemas) : Has(v.o, key)}
             pdeps == {key \in Keys(d.propertyDeps) : Has(v.o, key)}
             schemaPart == UNION {Chain([i \in 1..Len(order) |-> Sub(d.EmbeddedSchemas[order[i]], v)], 1)
                                  : order \in Orders(sdeps)}
             propPart(key) == {dependencies_missing(names, 1, v.o) : names \in Orders(d.propertyDeps[key])}
             propsPart == UNION {Chain([i \in 1..Len(order) |-> propPart(order[i])], 1)
                                 : order \in Orders(pdeps)}
         IN  AppendAll(schemaPart, propsPart)

(***************************************************************************)
(* allOf / anyOf / oneOf / not                                             *)
(***************************************************************************)
allOf_Validate(a, v) ==
    UNION {Chain([i \in 1..Len(order) |-> Sub(a.EmbeddedSchemas[order[i]], v)], 1)
           : order \in Orders(Keys(a.EmbeddedSchemas))}

\* if schema.Validate(v) == nil { return nil }
RECURSIVE anyOf_loop(_, _, _, _)
anyOf_loop(a, order, i, v) ==
    IF i > Len(order) THEN {One("Validation failed for each schema in 'anyOf'.")}
    ELSE UNION {IF o.panic THEN {o}
                ELSE IF o.errs = <<>> THEN {Nil}
                ELSE anyOf_loop(a, order, i + 1, v)
                : o \in Sub(a.EmbeddedSchemas[order[i]], v)}

\* a slip: anyOf decided like allOf
anyOf_Validate_all(a, v) ==
    {IF o.panic \/ o.errs = <<>> THEN o ELSE One("Validation failed for each schema in 'anyOf'.")
     : o \in allOf_Validate(a, v)}

anyOf_Validate(a, v) ==
    UNION {anyOf_loop(a, order, 1, v) : order \in Orders(Keys(a.EmbeddedSchemas))}

strconv_Itoa(n) ==
    CASE n = 0 -> "0" [] n = 1 -> "1" [] n = 2 -> "2" [] n = 3 -> "3" [] n = 4 -> "4" [] OTHER -> "n"

RECURSIVE oneOf_loop(_, _, _, _, _)
oneOf_loop(o, order, i, v, succeeded) ==
    IF i > Len(order)
    THEN {IF succeeded # 1
          THEN One("Validation passed for " \o strconv_Itoa(succeeded) \o " schemas in 'oneOf'.")
          ELSE Nil}
    ELSE UNION {IF r.panic THEN {r}
                ELSE oneOf_loop(o, order, i + 1, v, IF r.errs = <<>> THEN succeeded + 1 ELSE succeeded)
                : r \in Sub(o.EmbeddedSchemas[order[i]], v)}

oneOf_Validate(o, v) ==
    UNION {oneOf_loop(o, order, 1, v, 0) : order \in Orders(Keys(o.EmbeddedSchemas))}

not_Validate(n, v) ==
    {IF r.panic THEN r
     ELSE IF r.errs = <<>> THEN One("The 'not' schema didn't raise an error.")
     ELSE Nil
     : r \in Sub(n.EmbeddedSchemas[""], v)}

(***************************************************************************)
(* properties, the variant that keeps the raw property schemas and decodes *)
(* each one when an instance has the property                              *)
(***************************************************************************)
\* err := json.Unmarshal(schemaValue, &schema); if err != nil { break }
RECURSIVE propertiesRaw_loop(_, _, _, _, _)
propertiesRaw_loop(p, dataMap, order, i, accs) ==
    IF i > Len(order) THEN accs
    ELSE IF Has(dataMap, order[i])
         THEN LET dec == Schema_UnmarshalJSON(p.raw[order[i]], "early")
              IN  IF dec.err THEN accs
                  ELSE propertiesRaw_loop(p, dataMap, order, i + 1,
                                          AppendAll(accs, Sub(dec.v, dataMap[order[i]])))
    ELSE propertiesRaw_loop(p, dataMap, order, i + 1, accs)

propertiesRaw_Validate(p, v) ==
    IF v.k # "object" THEN {Nil}
    ELSE UNION {propertiesRaw_loop(p, v.o, order, 1, {Nil}) : order \in Orders(Keys(p.raw))}

(***************************************************************************)
(* Schema.Validate                                                         *)
(***************************************************************************)
\* the outcomes of one keyword validator
Validator_Validate(val, v) ==
    CASE val.kw = "minimum" -> {minimum_Validate(val, v)}
      [] val.kw = "minimum3" -> {minimum3_Validate(val, v)}
      [] val.kw = "multipleOf" -> {multipleOf_Validate(val, v)}
      [] val.kw = "type" -> typeValidator_Validate(val, v)
      [] val.kw = "required" -> required_Validate(val, v)
      [] val.kw = "properties" -> properties_Validate(val, v)
      [] val.kw = "propertiesRaw" -> propertiesRaw_Validate(val, v)
      [] val.kw = "patternProperties" -> patternProperties_Validate(val, v)
      [] val.kw = "items" -> items_Validate(val, v)
      [] val.kw = "additionalItems" -> {additionalItems_Validate(val, v)}
      [] val.kw = "dependencies" -> dependencies_Validate(val, v)
      [] val.kw = "allOf" -> allOf_Validate(val, v)
      [] val.kw = "anyOf" -> anyOf_Validate(val, v)
      [] val.kw = "oneOf" -> oneOf_Validate(val, v)
      [] val.kw = "not" -> not_Validate(val, v)

\* the runs of the validators of s in order, one outcome each, up to a panic
RECURSIVE Runs(_, _, _)
Runs(s, v, i) ==
    IF i > Len(s.Validators) THEN {<<>>}
    ELSE UNION {IF o.panic THEN {<<o>>} ELSE {<<o>> \o rest : rest \in Runs(s, v, i + 1)}
                : o \in Validator_Validate(s.Validators[i], v)}

\* valErrs = append(valErrs, validator(data)...)
RECURSIVE Concat(_, _)
Concat(per, i) == IF i > Len(per) THEN Nil ELSE AppendErrs(per[i], Concat(per, i + 1))

Schema_Runs(s, v) == IF IsNil(s) THEN {<<Panic>>} ELSE Runs(s, v, 1)    \* s.Validators on a nil *Schema

Schema_Validate(s, v) == {Concat(per, 1) : per \in Schema_Runs(s, v)}

(***************************************************************************)
(* Decoding: json.Unmarshal into the validators' fields                    *)
(***************************************************************************)
Err == [err |-> TRUE, v |-> JNull]
Done(v) == [err |-> FALSE, v |-> v]

\* json.Unmarshal(b, &p) with p a *Schema: null is a nil pointer
DecodeSchemaPtr(b, rev) == IF b.k = "null" THEN Done(NilSchema) ELSE Schema_UnmarshalJSON(b, rev)

\* json.Unmarshal(b, &m) with m a map[string]*Schema
DecodeSchemaMap(b, rev) ==
    CASE b.k = "null" -> Done(<<>>)
      [] b.k = "object" ->
            IF \E key \in Keys(b.o) : DecodeSchemaPtr(b.o[key], rev).err THEN Err
            ELSE Done([key \in Keys(b.o) |-> DecodeSchemaPtr(b.o[key], rev).v])
      [] OTHER -> Err

\* json.Unmarshal(b, &l) with l a []*Schema
DecodeSchemaSlice(b, rev) ==
    CASE b.k = "null" -> Done(<<>>)
      [] b.k = "array" ->
            IF \E i \in DOMAIN b.a : DecodeSchemaPtr(b.a[i], rev).err THEN Err
            ELSE Done([i \in DOMAIN b.a |-> DecodeSchemaPtr(b.a[i], rev).v])
      [] OTHER -> Err

\* a.EmbeddedSchemas[strconv.Itoa(i)] = v
Indexed(l) == [key \in {strconv_Itoa(i - 1) : i \in DOMAIN l} |->
                 l[CHOOSE i \in DOMAIN l : strconv_Itoa(i - 1) = key]]

combinator_UnmarshalJSON(kw, b, rev) ==
    LET l == DecodeSchemaSlice(b, rev)
    IN  IF l.err THEN Err ELSE Done([kw |-> kw, EmbeddedSchemas |-> Indexed(l.v)])

\* var s Schema; json.Unmarshal(b, &s): Schema.UnmarshalJSON sees every value, null too
not_UnmarshalJSON(b, rev) ==
    LET s == Schema_UnmarshalJSON(b, rev)
    IN  IF s.err THEN Err ELSE Done([kw |-> "not", EmbeddedSchemas |-> [key \in {""} |-> s.v]])

additionalItems_UnmarshalJSON(b, rev) ==
    LET s == Schema_UnmarshalJSON(b, rev)
    IN  IF s.err THEN Err ELSE Done([kw |-> "additionalItems", EmbeddedSchemas |-> [key \in {""} |-> s.v]])

items_UnmarshalJSON(b, rev) ==
    LET one == DecodeSchemaPtr(b, rev)
        many == DecodeSchemaSlice(b, rev)
        blank == [kw |-> "items", schema |-> NilSchema, hasSlice |-> FALSE, schemaSlice |-> <<>>,
                  additionalAllowed |-> FALSE, additionalItems |-> NilSchema]
    IN  IF ~one.err THEN Done([blank EXCEPT !.schema = one.v])
        ELSE IF many.err THEN Err
        ELSE Done([blank EXCEPT !.hasSlice = TRUE, !.schemaSlice = many.v])

properties_UnmarshalJSON(b, rev) ==
    LET m == DecodeSchemaMap(b, rev)
    IN  IF m.err THEN Err
        ELSE Done([kw |-> "properties", EmbeddedSchemas |-> m.v, patternProperties |-> NoPatternProperties,
                   additionalPropertiesBool |-> FALSE, additionalPropertiesObject |-> NilSchema])

patternProperties_UnmarshalJSON(b, rev) ==
    LET m == DecodeSchemaMap(b, rev)
    IN  IF m.err \/ \E key \in Keys(m.v) : ~regexp_Compile(key) THEN Err
        ELSE Done([kw |-> "patternProperties", EmbeddedSchemas |-> m.v, object |-> Keys(m.v),
                   propertiesIsNeighbor |-> FALSE])

\* the two passes over the declared keys: a schema dependency where the value
\* decodes as a Schema, a property dependency where it decodes as []string
dependencies_schemaKeys(c, rev) == {key \in Keys(c) : ~Schema_UnmarshalJSON(c[key], rev).err}
dependencies_propertyKeys(c) == {key \in Keys(c) : c[key].k = "null" \/ IsStringList(c[key])}

dependencies_UnmarshalJSON(b, rev) ==
    IF b.k \notin {"object", "null"} THEN Err
    ELSE LET c == IF b.k = "null" THEN <<>> ELSE b.o
             sk == dependencies_schemaKeys(c, rev)
             pk == dependencies_propertyKeys(c)
         IN  IF pk = {} /\ sk = {} THEN Err
             ELSE Done([kw |-> "dependencies",
                        EmbeddedSchemas |-> [key \in sk |-> Schema_UnmarshalJSON(c[key], rev).v],
                        propertyDeps |-> [key \in pk |-> IF c[key].k = "null" THEN {} ELSE StringSet(c[key])]])

(***************************************************************************)
(* Schema.UnmarshalJSON                                                    *)
(*                                                                         *)
(* rev = "early": the driver of jsonschema.go, which knows minimum and     *)
(* properties and appends their validators in that order.                  *)
(* rev = "linked": the keyword registry with the sibling link pass that    *)
(* SetSchema and GetNeighboringSchemas are written for.                    *)
(***************************************************************************)
\* the keywords with a validator type, in the order their validators run
Registry == <<"type", "minimum", "multipleOf", "items", "additionalItems", "properties",
              "patternProperties", "required", "dependencies", "allOf", "anyOf", "oneOf", "not">>

Keyword_UnmarshalJSON(kw, b, rev) ==
    CASE kw = "type" -> typeValidator_UnmarshalJSON(b)
      [] kw = "minimum" -> minimum_UnmarshalJSON(b)
      [] kw = "multipleOf" -> multipleOf_UnmarshalJSON(b)
      [] kw = "items" -> items_UnmarshalJSON(b, rev)
      [] kw = "additionalItems" -> additionalItems_UnmarshalJSON(b, rev)
      [] kw = "properties" -> properties_UnmarshalJSON(b, rev)
      [] kw = "patternProperties" -> patternProperties_UnmarshalJSON(b, rev)
      [] kw = "required" -> required_UnmarshalJSON(b)
      [] kw = "dependencies" -> dependencies_UnmarshalJSON(b, rev)
      [] kw \in {"allOf", "anyOf", "oneOf"} -> combinator_UnmarshalJSON(kw, b, rev)
      [] kw = "not" -> not_UnmarshalJSON(b, rev)

\* the decode hook that reads a sibling's raw fragment
Keyword_SetSchema(val, raw, rev) ==
    CASE val.kw = "minimum" -> minimum_SetSchema(val, raw)
      [] val.kw = "items" -> items_SetSchema(val, raw)
      [] val.kw = "patternProperties" -> patternProperties_SetSchema(val, raw)
      [] val.kw = "properties" ->
            properties_SetSchema(val, raw,
                IF Has(raw, "additionalProperties") THEN DecodeSchemaPtr(raw["additionalProperties"], rev) ELSE Err)
      [] OTHER -> val

\* the link pass over the sibling nodes
Keyword_GetNeighboringSchemas(val, nodes) ==
    CASE val.kw = "items" -> items_GetNeighboringSchemas(val, nodes)
      [] val.kw = "properties" -> properties_GetNeighboringSchemas(val, nodes)
      [] OTHER -> val

\* a sibling read through SetSchema may hold a boolean: its own decode as a
\* schema failing leaves it without a node and is no error of the document
Tolerated == {"additionalItems"}

Schema_link(raw, rev) ==
    LET present == {kw \in {Registry[i] : i \in DOMAIN Registry} : Has(raw, kw)}
        dec == [kw \in present |-> Keyword_UnmarshalJSON(kw, raw[kw], rev)]
        kept == {kw \in present : ~dec[kw].err}
        set == [kw \in kept |-> Keyword_SetSchema(dec[kw].v, raw, rev)]
        nodes == [kw \in kept |-> Keyword_GetNeighboringSchemas(set[kw], set)]
        order == SelectSeq(Registry, LAMBDA kw : kw \in kept)
    IN  IF \E kw \in present \ Tolerated : dec[kw].err THEN Err
        ELSE Done([Validators |-> [i \in DOMAIN order |-> nodes[order[i]]]])

\* Minimum(min) and Properties(prop) of jsonschema.go
Minimum(min, raw) ==
    LET m == minimum_UnmarshalJSON(min)
    IN  IF m.err THEN Err ELSE Done(minimum3_SetSchema([m.v EXCEPT !.kw = "minimum3"], raw))

Properties(prop) ==
    IF prop.k = "object" THEN Done([kw |-> "propertiesRaw", raw |-> prop.o]) ELSE Err

Schema_early(raw) ==
    LET min == IF Has(raw, "minimum") THEN Minimum(raw["minimum"], raw) ELSE Err
        prop == IF Has(raw, "properties") THEN Properties(raw["properties"]) ELSE Err
    IN  IF (Has(raw, "minimum") /\ min.err) \/ (Has(raw, "properties") /\ prop.err) THEN Err
        ELSE Done([Validators |-> (IF Has(raw, "minimum") THEN <<min.v>> ELSE <<>>)
                                  \o (IF Has(raw, "properties") THEN <<prop.v>> ELSE <<>>)])

Schema_UnmarshalJSON(b, rev) ==
    IF b.k # "object" THEN Err     \* "Schema must be of the type `map[string]interface{}`."
    ELSE IF rev = "early" THEN Schema_early(b.o)
    ELSE Schema_link(b.o, rev)

\* Parse: var schema *Schema; json.NewDecoder(schemaBytes).Decode(&schema)
Parse(b, r) == DecodeSchemaPtr(b, r)

\* normalizeType: the instance is already in the decoded value model
normalizeType(v) == v

(***************************************************************************)
(* The documents and instances the model draws from                        *)
(***************************************************************************)
Obj1(k1, v1) == JObj([key \in {k1} |-> v1])
Obj2(k1, v1, k2, v2) == JObj([key \in {k1, k2} |-> IF key = k1 THEN v1 ELSE v2])
Merge(a, b) == JObj([key \in Keys(a.o) \cup Keys(b.o) |-> IF Has(a.o, key) THEN a.o[key] ELSE b.o[key]])
Empty == JObj(<<>>)
Lit(n) == JNum(n, -1, FALSE, 0)

Exponents == {<<FALSE, 0>>, <<TRUE, -1>>, <<TRUE, 2>>}
Fractions == {-1, 0, 5}
Literals == {JNum(ip, fr, x[1], x[2]) : ip \in 0..MaxInt, fr \in Fractions, x \in Exponents}
BoundLiterals == {n \in Literals : n.ip >= 1 /\ (n.hasE => n.e = -1)}

\* embedded schemas: one that accepts everything, one that can report one
\* error, one that can report two
SchemaString == Obj1("type", JStr("string"))
SchemaTwo == Obj2("type", JStr("string"), "minimum", Lit(1))
Leaves == {Empty, SchemaString, SchemaTwo}

Floats == {GoNum("float64", h * 50) : h \in 0..(2 * MaxInt + 2)}
Ints == {GoNum("int64", n * 10 * 10) : n \in 0..(MaxInt + 1)}
OtherNumbers == {GoNum("uint64", 100), GoNum("int32", 100), GoNum("float32", 50),
                 GoNum("uint", 100), GoNum("uint8", 100)}
Scalars == {JStr("x"), GoNum("float64", 0)}

ObjectsOver(keys) ==
    {JObj(o) : o \in UNION {[ks -> Scalars] : ks \in {x \in SUBSET keys : Cardinality(x) <= MaxKeys}}}
Objects == ObjectsOver({"a", "ab", "b"})
SmallObjects == {JObj([key \in ks |-> JStr("x")]) : ks \in {x \in SUBSET {"a", "ab", "b"} : Cardinality(x) <= MaxKeys}}
Arrays == {JArr(a) : a \in UNION {[1..n -> Scalars] : n \in 0..MaxItems}}

Exclusive == {Empty, Obj1("exclusiveMinimum", JBool(TRUE)), Obj1("exclusiveMinimum", JBool(FALSE)),
              Obj1("exclusiveMinimum", JStr("x")), Obj1("exclusiveminimum", JBool(TRUE))}
MinimumDocs == {Merge(Obj1("minimum", m), x) : m \in BoundLiterals, x \in Exclusive}
                 \cup {Obj1("minimum", JStr("x"))}
MultipleOfDocs == {Obj1("multipleOf", Lit(n)) : n \in 0..(MaxInt + 1)}
                    \cup {Obj1("multipleOf", JNum(1, 5, FALSE, 0)), Obj1("multipleOf", JNull)}
TypeLists == {<<"integer">>, <<"number">>, <<"integer", "string">>, <<"number", "null">>, <<"string", "object", "array">>}
TypeDocs == {Obj1("type", JArr([i \in DOMAIN l |-> JStr(l[i])])) : l \in TypeLists}
              \cup {Obj1("type", JStr("integer")), Obj1("type", Lit(1))}

PropertiesParts == {Empty, Obj1("properties", Obj1("a", SchemaString)),
                    Obj1("properties", Obj2("a", SchemaString, "b", SchemaTwo))}
PatternParts == {Empty, Obj1("patternProperties", Obj1("^a", SchemaTwo)),
                 Obj1("patternProperties", Obj2("^a", SchemaString, "b$", SchemaTwo))}
AdditionalParts == {Empty, Obj1("additionalProperties", JBool(FALSE)), Obj1("additionalProperties", SchemaString)}
ObjectDocs == {Merge(Merge(p, q), a) : p \in PropertiesParts, q \in PatternParts, a \in AdditionalParts}
                \cup {Obj1("patternProperties", Obj1("(", Empty)),
                      Obj1("properties", Obj1("a", JNull)),
                      Obj2("properties", Empty, "additionalProperties", JBool(TRUE)),
                      Obj2("properties", Empty, "additionalProperties", Lit(1))}
RequiredDocs == {Obj1("required", JArr(<<JStr("a"), JStr("b")>>)), Obj1("required", JArr(<<JStr("a")>>)),
                 Obj1("required", JStr("a"))}

ItemsParts == {Obj1("items", SchemaString), Obj1("items", JArr(<<>>)), Obj1("items", JArr(<<SchemaString>>)),
               Obj1("items", JArr(<<SchemaTwo, SchemaString>>)), Obj1("items", JBool(TRUE))}
AdditionalItemsParts == {Empty, Obj1("additionalItems", JBool(FALSE)), Obj1("additionalItems", JBool(TRUE)),
                         Obj1("additionalItems", SchemaTwo), Obj1("additionalItems", Lit(1))}
ItemsDocs == {Merge(i, a) : i \in ItemsParts, a \in AdditionalItemsParts}

Branches == {JArr(l) : l \in UNION {[1..n -> Leaves] : n \in 0..2}}
CombinatorDocs == {Obj1(kw, l) : kw \in {"allOf", "anyOf", "oneOf"}, l \in Branches}
                    \cup {Obj1("not", s) : s \in Leaves} \cup {Obj1("anyOf", Empty)}

DependencyValues == {Obj1("required", JArr(<<JStr("b")>>)), JArr(<<JStr("b")>>),
                     JArr(<<JStr("a"), JStr("ab")>>), Lit(1)}
DependenciesDocs == {Obj1("dependencies", Obj1("a", x)) : x \in DependencyValues}
                      \cup {Obj1("dependencies", Obj2("a", x, "b", y)) : x, y \in DependencyValues}
                      \cup {Obj1("dependencies", Empty), Obj1("dependencies", JArr(<<>>))}

LinkedDocs == MinimumDocs \cup MultipleOfDocs \cup TypeDocs \cup ObjectDocs \cup RequiredDocs
                \cup ItemsDocs \cup CombinatorDocs \cup DependenciesDocs \cup {Empty, JBool(TRUE)}
EarlyDocs == MinimumDocs
               \cup {Obj1("properties", Obj2("a", Obj1("minimum", Lit(1)), "b", x)) : x \in {Obj1("minimum", Lit(2)), Lit(1)}}

\* the instances a document is validated against: those of the kinds its
\* keywords apply to, and a string
InstancesFor(b) ==
    {JStr("x")}
      \cup (IF b.k = "object" /\ Keys(b.o) \cap {"minimum", "multipleOf"} # {}
            THEN Floats \cup Ints \cup OtherNumbers \cup {Lit(1)} ELSE {})
      \cup (IF b.k = "object" /\ Has(b.o, "type")
            THEN Literals \cup {GoNum("float64", 100), GoNum("float64", 150), GoNum("int64", 100), JNull} ELSE {})
      \cup (IF b.k = "object" /\ Keys(b.o) \cap {"properties", "patternProperties"} # {}
            THEN Objects ELSE {})
      \cup (IF b.k = "object" /\ Keys(b.o) \cap {"required", "dependencies"} # {}
            THEN SmallObjects ELSE {})
      \cup (IF b.k = "object" /\ Has(b.o, "items") THEN Arrays ELSE {})
      \cup (IF b.k = "object" /\ Keys(b.o) \cap {"allOf", "anyOf", "oneOf", "not"} # {}
            THEN Scalars \cup {GoNum("float64", 100)} ELSE {})

(***************************************************************************)
(* The state machine: Parse once, then Validate any number of times        *)
(***************************************************************************)
NoCall == [errs |-> <<>>, panic |-> FALSE, log |-> EmptyBag, per |-> <<>>]
NoPrev == [has |-> FALSE]
NoSchema == [none |-> TRUE]
Callers == 1..MaxCallers
Idle == [st |-> "idle", v |-> JNull, pc |-> 0, errs |-> <<>>]

Init ==
    /\ revision \in {"linked", "early"}
    /\ doc \in (IF revision = "linked" THEN LinkedDocs ELSE EarlyDocs)
    /\ phase = "raw"
    /\ schema = NoSchema
    /\ data = JNull
    /\ last = NoCall
    /\ prev = NoPrev
    /\ calls = [c \in Callers |-> Idle]

ParseDoc ==
    /\ phase = "raw"
    /\ LET r == Parse(doc, revision)
       IN  /\ phase' = IF r.err THEN "failed" ELSE "compiled"
           /\ schema' = IF r.err THEN NoSchema ELSE r.v
    /\ UNCHANGED <<revision, doc, data, last, prev, calls>>

Validate(v) ==
    /\ phase \in {"compiled", "validated"}
    /\ \E per \in Schema_Runs(schema, normalizeType(v)) :
         LET out == Concat(per, 1)
         IN  last' = [errs |-> out.errs, panic |-> out.panic, log |-> out.log, per |-> per]
    /\ data' = v
    /\ prev' = IF phase = "validated" /\ v = data THEN [has |-> TRUE, out |-> last] ELSE NoPrev
    /\ phase' = "validated"
    /\ UNCHANGED <<revision, doc, schema, calls>>

ValidateCall == \E v \in InstancesFor(doc) : Validate(v)

Next == ParseDoc \/ ValidateCall

Spec == Init /\ [][Next]_vars

(***************************************************************************)
(* Concurrent callers: several goroutines run Schema.Validate on the same  *)
(* *Schema.  A call is the loop of jsonschema.go:21-23, one validator per  *)
(* step, with its own data and valErrs; the schema is shared.              *)
(***************************************************************************)
\* the documents validated concurrently: those that compile to several
\* validators or embed schemas of several validators
ConcurrentDocs == {d \in ObjectDocs \cup ItemsDocs : Cardinality(Keys(d.o)) >= 2} \cup (EarlyDocs \ MinimumDocs)

\* the instances the callers pass: arrays for items, objects otherwise, with
\* elements and properties that pass and that fail the embedded schemas
ConcurrentInstances(b) ==
    IF Has(b.o, "items")
    THEN {JArr(<<GoNum("float64", 0)>>), JArr(<<JStr("x"), GoNum("float64", 0)>>),
          JArr(<<GoNum("float64", 0), GoNum("float64", 0)>>)}
    ELSE {Obj1("a", GoNum("float64", 0)), Obj2("a", JStr("x"), "b", GoNum("float64", 0)),
          Obj2("ab", GoNum("float64", 0), "b", GoNum("float64", 0))}

\* a slip: a pointer receiver that clears a link-time flag while validating
Validator_after_flagged(val, v) ==
    CASE val.kw = "items" -> [val EXCEPT !.additionalAllowed = FALSE]
      [] val.kw = "properties" -> [val EXCEPT !.additionalPropertiesBool = FALSE]
      [] OTHER -> val

\* The validator a call leaves behind in s.Validators.  Every Validate method
\* has a value receiver and assigns only to its locals (valErrs, counters):
\* no field of the receiver, no map or slice it shares and no embedded
\* schema is written.
Validator_after(val, v) == val

InitConcurrent == Init /\ doc \in ConcurrentDocs

\* data := normalizeType(dataStruct); var valErrs []ValidationError
Call(c) ==
    /\ phase = "compiled"
    /\ calls[c].st \in {"idle", "returned", "panicked"}
    /\ \E v \in ConcurrentInstances(doc) :
         calls' = [calls EXCEPT ![c] = [st |-> "running", v |-> normalizeType(v), pc |-> 1, errs |-> <<>>]]
    /\ UNCHANGED <<revision, doc, phase, schema, data, last, prev>>

\* valErrs = append(valErrs, validator(data)...) for the next validator
Step(c) ==
    /\ calls[c].st = "running"
    /\ ~IsNil(schema)
    /\ calls[c].pc <= Len(schema.Validators)
    /\ LET val == schema.Validators[calls[c].pc]
       IN  /\ \E o \in Validator_Validate(val, calls[c].v) :
                calls' = [calls EXCEPT ![c] =
                            IF o.panic THEN [@ EXCEPT !.st = "panicked"]
                            ELSE [@ EXCEPT !.errs = @ \o o.errs, !.pc = @ + 1]]
           /\ schema' = [schema EXCEPT !.Validators[calls[c].pc] = Validator_after(val, calls[c].v)]
    /\ UNCHANGED <<revision, doc, phase, data, last, prev>>

\* return valErrs (a nil *Schema panics on s.Validators)
Return(c) ==
    /\ calls[c].st = "running"
    /\ calls' = [calls EXCEPT ![c] =
                    IF IsNil(schema) THEN [@ EXCEPT !.st = "panicked"]
                    ELSE IF calls[c].pc > Len(schema.Validators) THEN [@ EXCEPT !.st = "returned"]
                    ELSE @]
    /\ IsNil(schema) \/ calls[c].pc > Len(schema.Validators)
    /\ UNCHANGED <<revision, doc, phase, schema, data, last, prev>>

CallAny == \E c \in Callers : Call(c)
StepAny == \E c \in Callers : Step(c)
ReturnAny == \E c \in Callers : Return(c)

NextConcurrent == ParseDoc \/ CallAny \/ StepAny \/ ReturnAny

SpecConcurrent == InitConcurrent /\ [][NextConcurrent]_vars

(***************************************************************************)
(* What the properties below read from a state                             *)
(***************************************************************************)
Validated == phase = "validated" /\ ~IsNil(schema)

\* the position of the validator of keyword kw in the compiled schema, 0 if none
IndexOf(kw) ==
    IF \E i \in DOMAIN schema.Validators : schema.Validators[i].kw = kw
    THEN CHOOSE i \in DOMAIN schema.Validators : schema.Validators[i].kw = kw
    ELSE 0

\* keyword kw's validator ran in the latest call
Ran(kw) == Validated /\ IndexOf(kw) \in DOMAIN last.per
ValidatorOf(kw) == schema.Validators[IndexOf(kw)]
ResultOf(kw) == last.per[IndexOf(kw)]

Declares(kw) == doc.k = "object" /\ Has(doc.o, kw)

\* the error list of an embedded schema given as a raw fragment (the embedded
\* schemas of the modelled documents visit no map, so there is one)
ErrsOf(raw, v) == (CHOOSE o \in Schema_Validate(Parse(raw, "linked").v, v) : TRUE).errs
Passes(raw, v) == \A o \in Schema_Validate(Parse(raw, "linked").v, v) : ~o.panic /\ o.errs = <<>>

RECURSIVE Flat(_, _)
Flat(lists, i) == IF i > Len(lists) THEN <<>> ELSE lists[i] \o Flat(lists, i + 1)

RECURSIVE BagOfSeq(_, _)
BagOfSeq(seq, i) == IF i > Len(seq) THEN EmptyBag ELSE SetToBag({seq[i]}) (+) BagOfSeq(seq, i + 1)

RECURSIVE BagSum(_, _)
BagSum(bags, i) == IF i > Len(bags) THEN EmptyBag ELSE bags[i] (+) BagSum(bags, i + 1)

Count(seq, x) == Cardinality({i \in DOMAIN seq : seq[i] = x})

AdditionalPropertyError == ValidationError("Additional properties aren't allowed")
AdditionalItemError == ValidationError("Additional items aren't allowed.")

\* the numeric value of an instance or literal, in hundredths
IsGoNumber(v) == v.k \in {"float64", "float32"} \cup GoIntTypes \cup GoUintTypes
ValueOf(n) == IF n.k = "json.Number" THEN Float64(n).v ELSE n.h
IsIntegral(n) == ValueOf(n) % (10 * 10) = 0

(***************************************************************************)
(* C1: any two calls Validate(S, v) with S and v unchanged return the      *)
(* identical error list (same errors, same count, same order), whatever    *)
(* order the maps are visited in.  The code ranges over Go maps, so the    *)
(* statement fails.                                                        *)
(***************************************************************************)
C1_SameErrorList ==
    (phase = "validated" /\ prev.has) => (prev.out.errs = last.errs /\ prev.out.panic = last.panic)

(***************************************************************************)
(* C2: minimum m, numeric instance n: with exclusiveMinimum absent or      *)
(* false an error is reported exactly when n < m; with exclusiveMinimum    *)
(* true exactly when n <= m.  Stated of the version linked through         *)
(* SetSchema, which rejects n = m when not exclusive and never reads       *)
(* "exclusiveMinimum".                                                     *)
(***************************************************************************)
ExclusiveDeclared == Declares("exclusiveMinimum") /\ doc.o["exclusiveMinimum"] = JBool(TRUE)
ExclusiveWellFormed == ~Declares("exclusiveminimum")
                         /\ (Declares("exclusiveMinimum") => doc.o["exclusiveMinimum"].k = "bool")

C2_MinimumBoundary ==
    (Ran("minimum") /\ ExclusiveWellFormed /\ data.k \in {"int64", "float64"})
        => LET m == ValueOf(doc.o["minimum"])
               n == ValueOf(data)
           IN  (ResultOf("minimum").errs # <<>>) <=> (IF ExclusiveDeclared THEN n <= m ELSE n < m)

(***************************************************************************)
(* C3: the list Validate returns contains every error produced by every    *)
(* embedded schema applied to a part of the instance, also after a later   *)
(* property or element violates additionalProperties / additionalItems     *)
(* false.  Fails: both validators replace the list collected so far.       *)
(***************************************************************************)
\* the errors the embedded schemas produce for the instance's properties
PropertiesProduced ==
    LET p == ValidatorOf("properties")
        keys == CHOOSE order \in Orders(Keys(data.o)) : TRUE
    IN  BagSum([i \in DOMAIN keys |->
                  BagOfSeq((CHOOSE o \in properties_step(p, keys[i], data.o[keys[i]]) : TRUE).errs, 1)], 1)

\* the errors the positional schemas produce for the instance's elements
ItemsProduced ==
    LET it == ValidatorOf("items")
        upto == IF Len(data.a) < Len(it.schemaSlice) THEN Len(data.a) ELSE Len(it.schemaSlice)
    IN  BagSum([pos \in 1..upto |->
                  BagOfSeq((CHOOSE o \in Sub(it.schemaSlice[pos], data.a[pos]) : TRUE).errs, 1)], 1)

C3_NothingTruncated ==
    /\ (Ran("properties") /\ data.k = "object" /\ ~last.panic)
          => PropertiesProduced \sqsubseteq BagOfSeq(ResultOf("properties").errs, 1)
    /\ (Ran("items") /\ data.k = "array" /\ ~last.panic /\ ValidatorOf("items").hasSlice)
          => ItemsProduced \sqsubseteq BagOfSeq(ResultOf("items").errs, 1)

(***************************************************************************)
(* C4: properties.Validate reports one additional-property violation per   *)
(* key that matches no declared name and no pattern when                   *)
(* additionalProperties is false, and none when it is true, absent or a    *)
(* schema; a matching key never produces one.  Fails: the violation        *)
(* replaces the list, so two unmatched keys leave one violation.           *)
(***************************************************************************)
DeclaredNames == IF Declares("properties") /\ doc.o["properties"].k = "object" THEN Keys(doc.o["properties"].o) ELSE {}
DeclaredPatterns ==
    IF Declares("patternProperties") /\ doc.o["patternProperties"].k = "object"
    THEN Keys(doc.o["patternProperties"].o) ELSE {}
Unmatched ==
    {key \in Keys(data.o) : key \notin DeclaredNames /\ \A pat \in DeclaredPatterns : ~MatchString(pat, key)}
AdditionalForbidden == Declares("additionalProperties") /\ doc.o["additionalProperties"] = JBool(FALSE)

C4_OneViolationPerUnmatchedKey ==
    (Ran("properties") /\ data.k = "object" /\ ~last.panic)
        => Count(ResultOf("properties").errs, AdditionalPropertyError)
             = (IF AdditionalForbidden THEN Cardinality(Unmatched) ELSE 0)

(***************************************************************************)
(* C5: items in tuple mode with k positional schemas, array of length n:   *)
(* element i < k is validated against schema i; additionalItems absent:    *)
(* the elements past k are unconstrained; additionalItems false: invalid   *)
(* exactly when n > k or a positional schema fails, and no additional-     *)
(* items error when n <= k; additionalItems a schema: every element past   *)
(* k is validated against it.  Single-schema mode: every element is        *)
(* validated against the one schema, whatever additionalItems is.          *)
(***************************************************************************)
TupleMode == Declares("items") /\ doc.o["items"].k = "array"
SingleMode == Declares("items") /\ doc.o["items"].k = "object"
TupleLen == Len(doc.o["items"].a)
Positional ==
    Flat([pos \in 1..(IF Len(data.a) < TupleLen THEN Len(data.a) ELSE TupleLen) |->
            ErrsOf(doc.o["items"].a[pos], data.a[pos])], 1)
Overflow(raw) ==
    Flat([j \in 1..(IF Len(data.a) > TupleLen THEN Len(data.a) - TupleLen ELSE 0) |->
            ErrsOf(raw, data.a[TupleLen + j])], 1)

C5_Items ==
    (Ran("items") /\ data.k = "array")
        => LET errs == ResultOf("items").errs
           IN  /\ (TupleMode /\ ~Declares("additionalItems")) => errs = Positional
               /\ (TupleMode /\ Declares("additionalItems") /\ doc.o["additionalItems"] = JBool(FALSE))
                     => /\ (errs # <<>>) <=> (Len(data.a) > TupleLen \/ Positional # <<>>)
                        /\ Len(data.a) <= TupleLen => errs = Positional
               /\ (TupleMode /\ Declares("additionalItems") /\ doc.o["additionalItems"].k = "object")
                     => errs = Positional \o Overflow(doc.o["additionalItems"])
               /\ SingleMode => errs = Flat([pos \in DOMAIN data.a |-> ErrsOf(doc.o["items"], data.a[pos])], 1)

\* an element past the tuple fails the additionalItems schema
C5_Witness ==
    /\ Ran("items") /\ data.k = "array" /\ TupleMode
    /\ Declares("additionalItems") /\ doc.o["additionalItems"].k = "object"
    /\ Len(data.a) > TupleLen /\ TupleLen > 0
    /\ Overflow(doc.o["additionalItems"]) # <<>>
    /\ ResultOf("items").errs = Positional \o Overflow(doc.o["additionalItems"])

(***************************************************************************)
(* C6: allOf reports no error exactly when every branch reports none,      *)
(* anyOf exactly when at least one branch reports none, oneOf exactly when *)
(* exactly one branch reports none, not exactly when its schema reports    *)
(* an error.                                                               *)
(***************************************************************************)
BranchesOf(kw) == doc.o[kw].a
Passing(kw) == {i \in DOMAIN BranchesOf(kw) : Passes(BranchesOf(kw)[i], data)}

C6_Combinators ==
    /\ Ran("allOf") => ((ResultOf("allOf").errs = <<>>) <=> (Passing("allOf") = DOMAIN BranchesOf("allOf")))
    /\ Ran("anyOf") => ((ResultOf("anyOf").errs = <<>>) <=> (Passing("anyOf") # {}))
    /\ Ran("oneOf") => ((ResultOf("oneOf").errs = <<>>) <=> (Cardinality(Passing("oneOf")) = 1))
    /\ Ran("not") => ((ResultOf("not").errs = <<>>) <=> ~Passes(doc.o["not"], data))

\* oneOf is rejected because two branches pass
C6_Witness ==
    /\ Ran("oneOf") /\ Cardinality(Passing("oneOf")) = 2
    /\ ResultOf("oneOf").errs # <<>>

(***************************************************************************)
(* C7: decoding dependencies fails whenever some declared key has a value  *)
(* that is neither a valid schema object nor a list of strings, and after  *)
(* a successful decode every declared key is registered.  Fails: decode    *)
(* skips such a key and fails only when no key at all was registered.      *)
(***************************************************************************)
IsDependency(raw) == IsStringList(raw) \/ (raw.k = "object" /\ ~Parse(raw, "linked").err)

C7_DependenciesStrict ==
    (Declares("dependencies") /\ doc.o["dependencies"].k = "object" /\ phase # "raw")
        => LET c == doc.o["dependencies"].o
           IN  /\ (\E key \in Keys(c) : ~IsDependency(c[key])) => phase = "failed"
               /\ phase # "failed" =>
                     \A key \in Keys(c) : \/ Has(schema.Validators[IndexOf("dependencies")].EmbeddedSchemas, key)
                                          \/ Has(schema.Validators[IndexOf("dependencies")].propertyDeps, key)

(***************************************************************************)
(* C8: type classifies a numeric instance as integer exactly when its      *)
(* value has no fractional component, whatever its representation;         *)
(* "number" accepts both kinds, "integer" without "number" accepts         *)
(* integers only; a mismatch yields one error.  Fails: the code looks for  *)
(* a "." in the literal and calls every float64 a number.                  *)
(***************************************************************************)
C8_TypeOfNumbers ==
    (Ran("type") /\ data.k \in {"json.Number", "float64"})
        => LET types == ValidatorOf("type").types
               accepted == "number" \in types \/ (IsIntegral(data) /\ "integer" \in types)
           IN  Len(ResultOf("type").errs) = (IF accepted THEN 0 ELSE 1)

(***************************************************************************)
(* C9: with both properties and patternProperties, patternProperties       *)
(* reports nothing and properties applies, for every instance key, the     *)
(* schema of each matching pattern and the schema of the exact name        *)
(* exactly once; without a sibling properties, patternProperties applies   *)
(* every matching pattern's schema itself.                                 *)
(***************************************************************************)
ExpectedApplications(by) ==
    {<<by, key, key>> : key \in Keys(data.o) \cap (IF by = "properties" THEN DeclaredNames ELSE {})}
      \cup {<<by, kp[1], kp[2]>> : kp \in {x \in Keys(data.o) \X DeclaredPatterns : MatchString(x[2], x[1])}}

C9_AppliedOnce ==
    (Validated /\ data.k = "object" /\ Declares("patternProperties") /\ ~last.panic)
        => IF Declares("properties")
           THEN /\ ResultOf("patternProperties") = Nil
                /\ last.log = SetToBag(ExpectedApplications("properties"))
           ELSE last.log = SetToBag(ExpectedApplications("patternProperties"))

\* a key matched by its name and by a pattern: both schemas applied by properties
C9_Witness ==
    /\ Validated /\ data.k = "object" /\ Declares("patternProperties") /\ Declares("properties")
    /\ \E key \in Keys(data.o) : key \in DeclaredNames /\ \E pat \in DeclaredPatterns : MatchString(pat, key)
    /\ last.log = SetToBag(ExpectedApplications("properties"))
    /\ last.errs # <<>>

(***************************************************************************)
(* C10: for every divisor m that multipleOf's decode accepts and every     *)
(* instance normalizing to an integer n, Validate returns one error when   *)
(* n is no multiple of m and none when it is; floats and non-numbers are   *)
(* skipped.  Fails: decode accepts 0 and n % 0 panics.                     *)
(***************************************************************************)
Divides(m, n) == \E q \in -Abs(n)..Abs(n) : q * m = n

C10_MultipleOf ==
    (Validated /\ IndexOf("multipleOf") # 0 /\ doc.o["multipleOf"].k = "json.Number" /\ data.k # "uint64")
        => LET m == ValidatorOf("multipleOf").n
               nn == normalizeNumber(data).n
           IN  /\ Ran("multipleOf") /\ ~last.panic
               /\ Len(ResultOf("multipleOf").errs)
                    = (IF nn.k = "int64" /\ ~Divides(m, IntOf(nn)) THEN 1 ELSE 0)

(***************************************************************************)
(* C11: Validate never changes a compiled Schema: after any number of      *)
(* Validate calls, in any interleaving of calls running concurrently on    *)
(* the same Schema with different instances, the validators, their         *)
(* link-time flags and their embedded schemas are what they were right     *)
(* after compilation, and each call returns an error list (or fault) that  *)
(* the same call produces when run alone.                                  *)
(***************************************************************************)
Compiled == Parse(doc, revision).v
Alone(v) == Schema_Validate(Compiled, v)

IsValidSchema(raw) == raw.k = "object" /\ ~Parse(raw, revision).err
IsBoolOrSchema(raw) == raw.k = "bool" \/ IsValidSchema(raw)

MalformedPayload ==
    \/ Declares("additionalProperties") /\ ~IsBoolOrSchema(doc.o["additionalProperties"])
    \/ Declares("additionalItems") /\ ~IsBoolOrSchema(doc.o["additionalItems"])
    \/ Declares("properties")
          /\ \/ doc.o["properties"].k # "object"
             \/ \E key \in Keys(doc.o["properties"].o) : ~IsValidSchema(doc.o["properties"].o[key])
    \/ Declares("minimum") /\ doc.o["minimum"].k # "json.Number"

C12_MalformedFailsCompile ==
    (phase # "raw" /\ MalformedPayload) => phase = "failed"

(***************************************************************************)
(* C13: normalizeNumber maps every numeric input, whatever its integer or  *)
(* float width, to an int64 or a float64 of the same value, and fails only *)
(* when the value cannot be represented: a uint64 within the int64 range   *)
(* is normalized without error, and no numeric input comes back in a       *)
(* third representation.  (Every value of the model fits an int64.)        *)
(***************************************************************************)
GoNumericKinds == {"float32", "float64", "uint", "uint64"} \cup GoIntTypes \cup GoUintTypes
UnsupportedType(v) == ValidationError(v.k \o " is not a supported type.")

C13_NormalizeNumber ==
    (Validated /\ data.k \in GoNumericKinds /\ (Ran("minimum") \/ Ran("minimum3") \/ Ran("multipleOf")))
        => LET r == normalizeNumber(data)
           IN  /\ ~r.err
               /\ r.n.k \in {"int64", "float64"}
               /\ r.n.h = data.h
               /\ Count(last.errs, UnsupportedType(data)) = 0

(***************************************************************************)
(* C14: for every schema that compiles and every instance, Validate        *)
(* completes and returns an error list; it never aborts with a runtime     *)
(* fault, also with a multipleOf divisor of 0 and with JSON null in the    *)
(* place of an embedded schema.                                            *)
(***************************************************************************)
C14_ValidateNeverPanics ==
    phase = "validated" => ~last.panic

====
